---------------------------- MODULE Spec2Model ----------------------------
(***************************************************************************)
(* Model of the artifact registry backend (cjlapao/pd-ai-agents-registry). *)
(*                                                                         *)
(* Strings that the code only compares for equality are TLA+ strings.      *)
(* Version strings, which the code splits and parses, are sequences of     *)
(* one-character strings.  A formatted path or URL ("a/b/c") is the tuple  *)
(* of its segments: no path parameter or multipart filename holds a "/".   *)
(* A platform key "%s-%s" is the pair <<platform, arch>>.                  *)
(***************************************************************************)
EXTENDS Integers, Sequences, FiniteSets, TLC

\* ------------------------------------------------------------------ bounds
\* Request workers that run handlers concurrently.
MaxProcs == 2
\* Update binaries uploaded in one run (each takes a fresh time stamp).
MaxUploads == 2

Procs == 1..MaxProcs

VARIABLES
    updates,          \* collection "updates": sequence of Update records
    latest_version,   \* collection "latest_version": sequence of documents
    objects,          \* object store: key -> content
    pc,               \* per worker: the handler step it is at
    req,              \* per worker: the request parameters and locals
    resp,             \* the response the last step wrote, if it wrote one
    clock,            \* time.Now(), counted in uploads
    aggFailed,        \* history: some aggregation call returned an error
    packages,         \* collection "packages": the package names
    versions,         \* collection "versions": sequence of Version records
    args,             \* the arguments of the last direct call of a function
    result,           \* what that call returned
    visitors,         \* RateLimiter.visitors: ip -> visitor
    now,              \* the time, in ticks
    rlLog,            \* history: the requests the rate limiter has decided
    mu,               \* RateLimiter.mu: who holds it (Unlocked if nobody)
    sweeper,          \* the cleanup goroutine: its step and its wake-up time
    orphans,          \* limiters deleted from the map that a request still holds
    deleting,         \* object store: keys whose delete is accepted, not yet visible
    waited            \* seconds the running S3Service.Delete has waited

reqVars  == <<pc, req, resp, objects>>
updVars  == <<updates, latest_version, clock, aggFailed>>
pkgVars  == <<packages, versions>>
callVars == <<args, result>>
rlVars   == <<visitors, now, rlLog, mu, sweeper, orphans>>
s3Vars   == <<deleting, waited>>
vars     == <<reqVars, updVars, pkgVars, callVars, rlVars, s3Vars>>

\* ------------------------------------------------------- strings, versions
Digits == {"0", "1", "2", "3", "4", "5", "6", "7", "8", "9"}

DigitVal(c) ==
    CASE c = "0" -> 0 [] c = "1" -> 1 [] c = "2" -> 2 [] c = "3" -> 3
      [] c = "4" -> 4 [] c = "5" -> 5 [] c = "6" -> 6 [] c = "7" -> 7
      [] c = "8" -> 8 [] c = "9" -> 9

\* strings.TrimPrefix(s, "v")
TrimPrefixV(s) == IF Len(s) >= 1 /\ s[1] = "v" THEN Tail(s) ELSE s

\* strings.Split(s, "."): the segments between the dots (n dots, n+1 segments)
RECURSIVE SplitDot(_)
SplitDot(s) ==
    IF \A i \in 1..Len(s) : s[i] # "."
    THEN <<s>>
    ELSE LET d == CHOOSE i \in 1..Len(s) :
                      s[i] = "." /\ \A j \in 1..(i-1) : s[j] # "."
         IN <<SubSeq(s, 1, d-1)>> \o SplitDot(SubSeq(s, d+1, Len(s)))

\* the value of a digit string (the version segments modelled are far shorter
\* than the 19 digits at which strconv.Atoi starts to clamp)
RECURSIVE DecimalValue(_)
DecimalValue(ds) ==
    IF ds = <<>> THEN 0
    ELSE DecimalValue(SubSeq(ds, 1, Len(ds)-1)) * 10 + DigitVal(ds[Len(ds)])

\* strconv.Atoi with the error dropped: an optional sign and decimal digits
\* give the number; anything else (the empty string too) gives 0.
Atoi(seg) ==
    LET signed == Len(seg) >= 1 /\ seg[1] \in {"+", "-"}
        ds     == IF signed THEN Tail(seg) ELSE seg
    IN IF ds = <<>> \/ \E i \in 1..Len(ds) : ds[i] \notin Digits
       THEN 0
       ELSE IF signed /\ seg[1] = "-" THEN 0 - DecimalValue(ds) ELSE DecimalValue(ds)

\* (mutant) the loop over the shared segments, without the length tie-break
RECURSIVE compareSharedParts(_, _, _)
compareSharedParts(p1, p2, i) ==
    IF i <= Len(p1) /\ i <= Len(p2)
    THEN IF Atoi(p1[i]) > Atoi(p2[i]) THEN 1
         ELSE IF Atoi(p1[i]) < Atoi(p2[i]) THEN -1
         ELSE compareSharedParts(p1, p2, i + 1)
    ELSE 0

\* lines 597-615: the loop over the shared segments, then the longer list wins
RECURSIVE compareParts(_, _, _)
compareParts(p1, p2, i) ==
    IF i <= Len(p1) /\ i <= Len(p2)
    THEN IF Atoi(p1[i]) > Atoi(p2[i]) THEN 1
         ELSE IF Atoi(p1[i]) < Atoi(p2[i]) THEN -1
         ELSE compareParts(p1, p2, i + 1)
    ELSE IF Len(p1) > Len(p2) THEN 1
         ELSE IF Len(p1) < Len(p2) THEN -1
         ELSE 0

compareVersions(v1, v2) ==
    compareParts(SplitDot(TrimPrefixV(v1)), SplitDot(TrimPrefixV(v2)), 1)

\* --------------------------------------------------- platforms and archs
isValidPlatform(platform) == platform \in {"windows", "darwin", "linux"}

\* (mutant) the lookup in validArchs without the two alias rewrites
isValidArchExact(arch) == arch \in {"x86_64", "i686", "armv7", "aarch64"}

\* lines 466-480: x86 and arm64 are rewritten, then looked up in validArchs
isValidArch(arch) ==
    LET a1 == IF arch = "x86" THEN "i686" ELSE arch
        a2 == IF a1 = "arm64" THEN "aarch64" ELSE a1
    IN a2 \in {"x86_64", "i686", "armv7", "aarch64"}

generateAllPlatformKeys ==
    { <<p, a>> : p \in {"windows", "darwin", "linux"},
                 a \in {"x86_64", "i686", "armv7", "aarch64"} }

\* ------------------------------------------------- latest-version document
\* the zero value of models.LatestVersion (what Decode leaves on ErrNoDocuments)
ZeroLatestVersion == [version |-> <<>>, notes |-> "", pubdate |-> <<>>, platforms |-> <<>>]

\* the zero value of models.LatestVersionPlatform
ZeroPlatform == [signature |-> "", url |-> <<>>]

\* the zero value of models.Update
ZeroUpdate ==
    [version |-> <<>>, platform |-> "", arch |-> "", filename |-> "",
     signature |-> "", release_date |-> 0, notes |-> "", download_url |-> <<>>]

\* update.ReleaseDate.Format(time.RFC3339)
FormatRFC3339(t) == <<"RFC3339", t>>

\* fmt.Sprintf("%s-%s", platform, arch)
PlatformKey(platform, arch) == <<platform, arch>>

\* fmt.Sprintf("updates/%s/%s/%s/%s", version, platform, arch, name)
UpdateKey(version, platform, arch, name) == <<"updates", version, platform, arch, name>>

\* fmt.Sprintf("/api/v1/updates/download/%s/%s/%s/%s", ...)
UpdateDownloadURL(version, platform, arch, filename) ==
    <<"api", "v1", "updates", "download", version, platform, arch, filename>>

\* FindOne(ctx, bson.M{}) on latest_version: found, and the decoded document
FindLatest(coll) ==
    [found |-> coll # <<>>,
     doc   |-> IF coll # <<>> THEN coll[1] ELSE ZeroLatestVersion]

\* lines 529-533: no document, or the upload is newer than the headline
takesHeadline(found, cur, update) ==
    ~found \/ compareVersions(update.version, cur.version) > 0

\* (mutant) the older upload is merged and written like any other
neverReturnsEarly(found, cur, update) == FALSE

\* lines 534-537: an upload that is not newer and not the headline version
\* makes updateLatestVersionDocument return without writing
returnsEarly(found, cur, update) ==
    ~takesHeadline(found, cur, update) /\ update.version # cur.version

\* (mutant) the loop over the fixed keys is left out
ensureNoPlatformKeys(platforms) == platforms

\* (mutant) the loop writes the zero entry without testing for the key
resetAllPlatformKeys(platforms) ==
    [k \in generateAllPlatformKeys \cup DOMAIN platforms |-> ZeroPlatform]

\* lines 550-558: every fixed key missing from the map gets the zero entry
ensureAllPlatformKeys(platforms) ==
    [k \in generateAllPlatformKeys \cup DOMAIN platforms |->
        IF k \in DOMAIN platforms THEN platforms[k] ELSE ZeroPlatform]

\* lines 539-548 and 565: the upload's own entry replaces the one at its key
setPlatformInfo(platforms, update) ==
    LET key  == PlatformKey(update.platform, update.arch)
        info == [signature |-> IF update.signature # "" THEN update.signature ELSE "",
                 url       |-> update.download_url]
    IN [k \in DOMAIN platforms \cup {key} |-> IF k = key THEN info ELSE platforms[k]]

\* lines 529-566: the document updateLatestVersionDocument builds in memory
\* from what it read, when it does not return early
mergeLatestVersion(found, cur, update) ==
    LET d1 == IF takesHeadline(found, cur, update)
              THEN [cur EXCEPT !.version = update.version,
                               !.notes   = update.notes,
                               !.pubdate = FormatRFC3339(update.release_date)]
              ELSE cur
        d2 == [d1 EXCEPT !.platforms = ensureAllPlatformKeys(d1.platforms)]
        d3 == IF update.notes # "" THEN [d2 EXCEPT !.notes = update.notes] ELSE d2
    IN [d3 EXCEPT !.platforms = setPlatformInfo(d3.platforms, update)]

\* (mutant) the document is inserted whether or not one is stored
insertLatestVersion(coll, doc) == Append(coll, doc)

\* lines 567-574: UpdateOne(bson.M{}, {"$set": doc}, upsert): the first
\* document takes the four fields, or the document is inserted
upsertLatestVersion(coll, doc) ==
    IF coll = <<>> THEN <<doc>> ELSE [coll EXCEPT ![1] = doc]

\* the same UpdateOne racing with another writer: its filter is evaluated
\* before its write, and without a unique index an upsert that matched nothing
\* inserts even if a document was inserted in between. A caller whose FindOne
\* found no document (found = FALSE) may have had its filter evaluated while
\* the collection was still empty; a caller that found one always matches.
upsertOutcomes(coll, found, doc) ==
    { upsertLatestVersion(coll, doc) } \cup
    ( IF ~found /\ coll # <<>> THEN { Append(coll, doc) } ELSE {} )

\* lines 519-580 run by one caller with no other writer in between: the
\* collection a successful call leaves behind
updateLatestVersionDocument(coll, update) ==
    LET r == FindLatest(coll)
    IN IF returnsEarly(r.found, r.doc, update)
       THEN coll
       ELSE upsertLatestVersion(coll, mergeLatestVersion(r.found, r.doc, update))

\* ------------------------------------------------ requests of the update track
\* path parameters and form fields a client may send
ReqVersions  == { <<"1", ".", "0">>, <<"v", "0", ".", "9">> }
ReqPlatforms == { "linux", "Linux" }
ReqArchs     == { "x86_64", "x86", "x64" }
ReqFilenames == { "app.bin" }
\* the content of the signature file and the notes field of an upload form
ReqPayloads  == { [signature |-> "", notes |-> ""],
                  [signature |-> "sigA", notes |-> "notesA"] }
ReqForms     == { "ok", "nofile", "nosig" }
UpdateData   == "updbytes"

\* h.cfg.GetBaseURL() prepended to a stored URL
AbsoluteURL(url) == <<"BASE">> \o url

IdleReq ==
    [version |-> <<>>, platform |-> "", arch |-> "", filename |-> "",
     signature |-> "", notes |-> "", update |-> ZeroUpdate,
     found |-> FALSE, cur |-> ZeroLatestVersion, name |-> "", file |-> <<>>]

NoBody == <<>>

\* a step that writes no response
NoResp == [proc |-> 0, op |-> "", status |-> 0, body |-> NoBody]

Silent == resp' = NoResp

Respond(p, op, status, body) ==
    /\ resp' = [proc |-> p, op |-> op, status |-> status, body |-> body]
    /\ pc'   = [pc EXCEPT ![p] = "idle"]
    /\ req'  = [req EXCEPT ![p] = IdleReq]

\* CountDocuments / FindOne filter {version, platform, arch} on updates
MatchingUpdates(version, platform, arch) ==
    { i \in 1..Len(updates) : /\ updates[i].version = version
                              /\ updates[i].platform = platform
                              /\ updates[i].arch = arch }

\* uploads past the conflict check that have not yet taken their time stamp
Pending == Cardinality({ q \in Procs : pc[q] = "upload" })

\* (mutant) a put that stores nothing
noPut(store, key, data) == store

Put(store, key, data) ==
    [k \in DOMAIN store \cup {key} |-> IF k = key THEN data ELSE store[k]]

Remove(store, key) == [k \in DOMAIN store \ {key} |-> store[k]]

\* UploadUpdate, lines 37-109: parameters, validation, conflict check, form
UploadUpdateBegin(p) ==
    /\ pc[p] = "idle"
    /\ clock + Pending < MaxUploads
    /\ \E version \in ReqVersions, platform \in ReqPlatforms, arch0 \in ReqArchs :
         LET a1   == IF arch0 = "x86" THEN "i686" ELSE arch0
             arch == IF a1 = "arm64" THEN "aarch64" ELSE a1
             v    == TrimPrefixV(version)
         IN IF ~isValidPlatform(platform) \/ ~isValidArch(arch)
            THEN Respond(p, "UploadUpdate", 400, NoBody)
            ELSE \E dbok \in BOOLEAN :
                 IF ~dbok
                 THEN Respond(p, "UploadUpdate", 500, NoBody)
                 ELSE IF MatchingUpdates(v, platform, arch) # {}
                 THEN Respond(p, "UploadUpdate", 409, NoBody)
                 ELSE \E form \in ReqForms :
                      IF form # "ok"
                      THEN Respond(p, "UploadUpdate", 400, NoBody)
                      ELSE \E filename \in ReqFilenames, payload \in ReqPayloads :
                           /\ pc'  = [pc EXCEPT ![p] = "upload"]
                           /\ req' = [req EXCEPT ![p] =
                                  [IdleReq EXCEPT !.version = v, !.platform = platform,
                                                  !.arch = arch, !.filename = filename,
                                                  !.signature = payload.signature,
                                                  !.notes = payload.notes]]
                           /\ Silent
    /\ UNCHANGED <<updates, latest_version, objects, clock, aggFailed>>
    /\ UNCHANGED <<pkgVars, callVars, rlVars, s3Vars>>

\* the ErrorResponse of a failed put, line 115
PutFailedBody == [error |-> "Failed to upload update file to S3"]

\* (mutant) the record is inserted before the put, and the put fails
UploadUpdateInsertThenStore(p) ==
    /\ pc[p] = "upload"
    /\ updates' = Append(updates,
                     [ZeroUpdate EXCEPT !.version = req[p].version,
                                        !.platform = req[p].platform,
                                        !.arch = req[p].arch,
                                        !.filename = req[p].filename])
    /\ Respond(p, "UploadUpdate", 500, PutFailedBody)
    /\ UNCHANGED <<latest_version, objects, clock, aggFailed>>
    /\ UNCHANGED <<pkgVars, callVars, rlVars, s3Vars>>

\* UploadUpdate, lines 111-140: put the object, then build the record
UploadUpdateStore(p) ==
    /\ pc[p] = "upload"
    /\ \E s3ok \in BOOLEAN :
         IF ~s3ok
         THEN /\ Respond(p, "UploadUpdate", 500, PutFailedBody)
              /\ UNCHANGED <<objects, clock>>
         ELSE LET r == req[p]
                  u == [version |-> r.version, platform |-> r.platform,
                        arch |-> r.arch, filename |-> r.filename,
                        signature |-> r.signature, release_date |-> clock + 1,
                        notes |-> r.notes,
                        download_url |->
                            UpdateDownloadURL(r.version, r.platform, r.arch, r.filename)]
              IN /\ objects' = Put(objects,
                                   UpdateKey(r.version, r.platform, r.arch, r.filename),
                                   UpdateData)
                 /\ clock' = clock + 1
                 /\ req' = [req EXCEPT ![p].update = u]
                 /\ pc' = [pc EXCEPT ![p] = "insert"]
                 /\ Silent
    /\ UNCHANGED <<updates, latest_version, aggFailed>>
    /\ UNCHANGED <<pkgVars, callVars, rlVars, s3Vars>>

\* UploadUpdate, lines 142-148: InsertOne
UploadUpdateInsert(p) ==
    /\ pc[p] = "insert"
    /\ \E dbok \in BOOLEAN :
         IF ~dbok
         THEN /\ Respond(p, "UploadUpdate", 500, NoBody)
              /\ UNCHANGED updates
         ELSE /\ updates' = Append(updates, req[p].update)
              /\ pc' = [pc EXCEPT ![p] = "agg_read"]
              /\ UNCHANGED req
                    /\ Silent
    /\ UNCHANGED <<latest_version, objects, clock, aggFailed>>
    /\ UNCHANGED <<pkgVars, callVars, rlVars, s3Vars>>

\* the 201 response of UploadUpdate, lines 156-163
UploadCreated(p) ==
    Respond(p, "UploadUpdate", 201, [version |-> req[p].update.version,
                     platform |-> req[p].update.platform,
                     filename |-> req[p].update.filename,
                     download_url |-> req[p].update.download_url])

\* updateLatestVersionDocument, lines 519-537: read the document; an error or
\* an older version ends the call, and UploadUpdate answers 201 either way
UpdateLatestRead(p) ==
    /\ pc[p] = "agg_read"
    /\ \E dbok \in BOOLEAN :
         IF ~dbok
         THEN /\ aggFailed' = TRUE
              /\ UploadCreated(p)
         ELSE LET f == FindLatest(latest_version)
              IN IF returnsEarly(f.found, f.doc, req[p].update)
                 THEN /\ UploadCreated(p)
                      /\ UNCHANGED aggFailed
                 ELSE /\ req' = [req EXCEPT ![p].found = f.found, ![p].cur = f.doc]
                      /\ pc' = [pc EXCEPT ![p] = "agg_write"]
                      /\ UNCHANGED aggFailed
                      /\ Silent
    /\ UNCHANGED <<updates, latest_version, objects, clock>>
    /\ UNCHANGED <<pkgVars, callVars, rlVars, s3Vars>>

\* updateLatestVersionDocument, lines 539-579: merge in memory and upsert
UpdateLatestWrite(p) ==
    /\ pc[p] = "agg_write"
    /\ \E dbok \in BOOLEAN :
         IF ~dbok
         THEN /\ aggFailed' = TRUE
              /\ UNCHANGED latest_version
         ELSE /\ latest_version' \in
                    upsertOutcomes(latest_version, req[p].found,
                        mergeLatestVersion(req[p].found, req[p].cur, req[p].update))
              /\ UNCHANGED aggFailed
    /\ UploadCreated(p)
    /\ UNCHANGED <<updates, objects, clock>>
    /\ UNCHANGED <<pkgVars, callVars, rlVars, s3Vars>>

\* DeleteUpdate, lines 375-409: parameters, validation, FindOne (any error,
\* ErrNoDocuments included, is answered 404)
DeleteUpdateBegin(p) ==
    /\ pc[p] = "idle"
    /\ \E version \in ReqVersions, platform \in ReqPlatforms, arch \in ReqArchs :
         LET v == TrimPrefixV(version)
             m == MatchingUpdates(v, platform, arch)
         IN IF ~isValidPlatform(platform) \/ ~isValidArch(arch)
            THEN Respond(p, "DeleteUpdate", 400, NoBody)
            ELSE \E dbok \in BOOLEAN :
                 IF ~dbok \/ m = {}
                 THEN Respond(p, "DeleteUpdate", 404, NoBody)
                 ELSE /\ pc'  = [pc EXCEPT ![p] = "del_obj"]
                      /\ req' = [req EXCEPT ![p] =
                              [IdleReq EXCEPT !.version = v, !.platform = platform,
                                              !.arch = arch,
                                              !.update = updates[CHOOSE i \in m :
                                                            \A j \in m : i <= j]]]
                      /\ Silent
    /\ UNCHANGED <<updates, latest_version, objects, clock, aggFailed>>
    /\ UNCHANGED <<pkgVars, callVars, rlVars, s3Vars>>

\* what S3Service.Delete may do: the delete request fails ("reqfail": the
\* object stays, error), the object goes and the wait for its absence succeeds
\* ("ok"), or the object goes and the wait returns an error ("waitfail")
DeleteOutcomes == { "ok", "reqfail", "waitfail" }

\* S3Service.Delete, storage lines 318-344: the store after the call
StorageDelete(store, key, outcome) ==
    IF outcome = "reqfail" THEN store ELSE Remove(store, key)

\* DeleteUpdate, lines 411-417: delete the update object
DeleteUpdateObject(p) ==
    /\ pc[p] = "del_obj"
    /\ \E outcome \in DeleteOutcomes :
         LET r == req[p]
             key == UpdateKey(r.version, r.platform, r.arch, r.update.filename)
         IN /\ objects' = StorageDelete(objects, key, outcome)
            /\ IF outcome # "ok"
               THEN Respond(p, "DeleteUpdate", 500, NoBody)
               ELSE /\ pc' = [pc EXCEPT ![p] =
                                IF r.update.signature # "" THEN "del_sig" ELSE "del_rec"]
                    /\ UNCHANGED req
                    /\ Silent
    /\ UNCHANGED <<updates, latest_version, clock, aggFailed>>
    /\ UNCHANGED <<pkgVars, callVars, rlVars, s3Vars>>

\* DeleteUpdate, lines 419-426: delete the object named by the signature; an
\* error is logged and ignored
DeleteUpdateSignature(p) ==
    /\ pc[p] = "del_sig"
    /\ \E outcome \in DeleteOutcomes :
         LET r == req[p]
             key == UpdateKey(r.version, r.platform, r.arch, r.update.signature)
         IN objects' = StorageDelete(objects, key, outcome)
    /\ pc' = [pc EXCEPT ![p] = "del_rec"]
    /\ Silent
    /\ UNCHANGED <<updates, latest_version, req, clock, aggFailed>>
    /\ UNCHANGED <<pkgVars, callVars, rlVars, s3Vars>>

\* DeleteOne with filter {version, platform, arch}: the first match goes
DeleteOneUpdate(coll, version, platform, arch) ==
    LET m == { i \in 1..Len(coll) : /\ coll[i].version = version
                                    /\ coll[i].platform = platform
                                    /\ coll[i].arch = arch }
    IN IF m = {} THEN coll
       ELSE LET first == CHOOSE i \in m : \A j \in m : i <= j
            IN SubSeq(coll, 1, first - 1) \o SubSeq(coll, first + 1, Len(coll))

\* (mutant) the delete of the record also drops the latest-version document
DeleteUpdateRecordAndLatest(p) ==
    /\ pc[p] = "del_rec"
    /\ updates' = DeleteOneUpdate(updates, req[p].version, req[p].platform, req[p].arch)
    /\ latest_version' = <<>>
    /\ Respond(p, "DeleteUpdate", 200, [version |-> req[p].version,
                     platform |-> req[p].platform, arch |-> req[p].arch])
    /\ UNCHANGED <<objects, clock, aggFailed>>
    /\ UNCHANGED <<pkgVars, callVars, rlVars, s3Vars>>

\* DeleteUpdate, lines 428-454: delete the record
DeleteUpdateRecord(p) ==
    /\ pc[p] = "del_rec"
    /\ \E dbok \in BOOLEAN :
         LET r == req[p]
         IN IF ~dbok
            THEN /\ Respond(p, "DeleteUpdate", 500, NoBody)
                 /\ UNCHANGED updates
            ELSE IF MatchingUpdates(r.version, r.platform, r.arch) = {}
            THEN /\ Respond(p, "DeleteUpdate", 404, NoBody)
                 /\ UNCHANGED updates
            ELSE /\ updates' = DeleteOneUpdate(updates, r.version, r.platform, r.arch)
                 /\ Respond(p, "DeleteUpdate", 200, [version |-> r.version, platform |-> r.platform,
                                     arch |-> r.arch])
    /\ UNCHANGED <<latest_version, objects, clock, aggFailed>>
    /\ UNCHANGED <<pkgVars, callVars, rlVars, s3Vars>>

\* GetLatestVersionInfo, lines 627-653
GetLatestVersionInfo(p) ==
    /\ pc[p] = "idle"
    /\ \E dbok \in BOOLEAN :
         IF ~dbok
         THEN Respond(p, "GetLatestVersionInfo", 500, NoBody)
         ELSE IF latest_version = <<>>
         THEN Respond(p, "GetLatestVersionInfo", 404, NoBody)
         ELSE LET doc == latest_version[1]
                  platforms ==
                      [k \in generateAllPlatformKeys \cap DOMAIN doc.platforms |->
                          [doc.platforms[k] EXCEPT !.url = AbsoluteURL(@)]]
              IN Respond(p, "GetLatestVersionInfo", 200, [doc EXCEPT !.platforms = platforms])
    /\ UNCHANGED <<updates, latest_version, objects, clock, aggFailed>>
    /\ UNCHANGED <<pkgVars, callVars, rlVars, s3Vars>>

\* no direct call made
NoArgs == <<>>
NoResult == <<>>

InitReq ==
    /\ objects = <<>>
    /\ pc = [p \in Procs |-> "idle"]
    /\ req = [p \in Procs |-> IdleReq]
    /\ resp = NoResp

InitUpd ==
    /\ updates = <<>>
    /\ latest_version = <<>>
    /\ clock = 0
    /\ aggFailed = FALSE

\* the catalog holds the packages created before the server took requests
SeededPackages == { "pkgA" }

InitPkg ==
    /\ packages = SeededPackages
    /\ versions = <<>>

InitCall ==
    /\ args = NoArgs
    /\ result = NoResult

\* sync.RWMutex: nobody holds it
Unlocked == 0

\* NewRateLimiter: an empty map, the cleanup goroutine started and asleep
InitRL ==
    /\ visitors = <<>>
    /\ now = 0
    /\ rlLog = <<>>
    /\ mu = Unlocked
    /\ sweeper = [pc |-> "sleep", since |-> 0]
    /\ orphans = <<>>

InitS3 ==
    /\ deleting = {}
    /\ waited = 0

Init == InitReq /\ InitUpd /\ InitPkg /\ InitCall /\ InitRL /\ InitS3

Next ==
    \E p \in Procs :
        \/ UploadUpdateBegin(p)
        \/ UploadUpdateStore(p)
        \/ UploadUpdateInsert(p)
        \/ UpdateLatestRead(p)
        \/ UpdateLatestWrite(p)
        \/ DeleteUpdateBegin(p)
        \/ DeleteUpdateObject(p)
        \/ DeleteUpdateSignature(p)
        \/ DeleteUpdateRecord(p)
        \/ GetLatestVersionInfo(p)

Spec == Init /\ [][Next]_vars

\* ---------------------------------------------------------------- claims
AllIdle == \A p \in Procs : pc[p] = "idle"

HasLatest == latest_version # <<>>

\* the entry an upload's aggregation stores under its key
EntryOf(u) == [signature |-> u.signature, url |-> u.download_url]

KeyOf(u) == PlatformKey(u.platform, u.arch)

\* the stored record i is the only one of its (version, platform, arch)
OnlyRecord(i) ==
    \A j \in 1..Len(updates) :
        (/\ updates[j].version = updates[i].version
         /\ updates[j].platform = updates[i].platform
         /\ updates[j].arch = updates[i].arch) => j = i

\* C1: once all uploads have completed (and no aggregation call failed), the
\* platforms mapping holds the signature and URL of every stored update of
\* the headline version; no upload's entry is lost to another upload's write.
C1_NoLostPlatformEntry ==
    (AllIdle /\ ~aggFailed /\ HasLatest) =>
        \A i \in 1..Len(updates) :
            (updates[i].version = latest_version[1].version /\ OnlyRecord(i)) =>
                /\ KeyOf(updates[i]) \in DOMAIN latest_version[1].platforms
                /\ latest_version[1].platforms[KeyOf(updates[i])] = EntryOf(updates[i])

\* worker p takes the step that ends its aggregation at the read, without an
\* error, of an upload older than the headline version it finds
OlderUploadStep(p) ==
    /\ pc[p] = "agg_read"
    /\ pc'[p] # "agg_read"
    /\ ~aggFailed'
    /\ HasLatest
    /\ compareVersions(req[p].update.version, latest_version[1].version) < 0

C4_VersionNeverRegresses ==
    [][(HasLatest /\ latest_version' # <<>>) =>
          compareVersions(latest_version'[1].version, latest_version[1].version) >= 0
      ]_vars

\* C5: every stored latest-version document has an entry for each of the 12
\* fixed platform keys.
C5_AllPlatformKeysPresent ==
    \A i \in 1..Len(latest_version) :
        generateAllPlatformKeys \subseteq DOMAIN latest_version[i].platforms

\* a delete has just succeeded while the document exists with a filled entry
C5_Witness ==
    /\ resp.op = "DeleteUpdate" /\ resp.status = 200
    /\ HasLatest
    /\ \E k \in DOMAIN latest_version[1].platforms :
           latest_version[1].platforms[k].url # <<>>

\* worker p takes the step that upserts its merged document, and the
\* collection is still as p read it (no other aggregation wrote in between)
UndisturbedWriteStep(p) ==
    /\ pc[p] = "agg_write"
    /\ pc'[p] = "idle"
    /\ latest_version' # <<>>
    /\ FindLatest(latest_version) = [found |-> req[p].found, doc |-> req[p].cur]

\* C6: an undisturbed aggregation run changes at most the entry of the
\* upload's own platform key: every other entry that was present keeps its
\* signature and URL, and a missing fixed key is added as an empty entry.
C6_OnlyOwnEntryChanges ==
    [][\A p \in Procs :
         UndisturbedWriteStep(p) =>
            LET old == FindLatest(latest_version).doc.platforms
                new == latest_version'[1].platforms
            IN /\ DOMAIN old \subseteq DOMAIN new
               /\ \A k \in DOMAIN new \ {KeyOf(req[p].update)} :
                     new[k] = IF k \in DOMAIN old THEN old[k] ELSE ZeroPlatform
      ]_vars

\* an upload has just been aggregated and the document holds the entries of
\* two platform keys
C6_Witness ==
    /\ resp.op = "UploadUpdate" /\ resp.status = 201
    /\ ~aggFailed
    /\ HasLatest
    /\ \E k1, k2 \in DOMAIN latest_version[1].platforms :
          /\ k1 # k2
          /\ latest_version[1].platforms[k1].url # <<>>
          /\ latest_version[1].platforms[k2].url # <<>>

\* ------------------------------------- updateLatestVersionDocument, called alone
\* the records UploadUpdate hands to the aggregation: version without its "v",
\* a valid platform and a normalized arch, the URL built from them
AggVersions  == { <<"1", ".", "0">>, <<"0", ".", "9">>, <<"1", ".", "0", "0">> }
AggPlatforms == { "linux" }
AggArchs     == { "x86_64", "i686" }
MaxDate == 2

AggUpdates ==
    { [version |-> v, platform |-> pl, arch |-> a, filename |-> f,
       signature |-> pay.signature, release_date |-> d, notes |-> pay.notes,
       download_url |-> UpdateDownloadURL(v, pl, a, f)] :
         v \in AggVersions, pl \in AggPlatforms, a \in AggArchs,
         f \in ReqFilenames, pay \in ReqPayloads, d \in 1..MaxDate }

\* one call of updateLatestVersionDocument; args keeps the record and whether
\* the call repeats the successful call before it, result keeps the outcome
\* and the collection the call found
CallUpdateLatest ==
    \E update \in AggUpdates, readok \in BOOLEAN, writeok \in BOOLEAN :
        LET r      == FindLatest(latest_version)
            early  == returnsEarly(r.found, r.doc, update)
            ok     == readok /\ (early \/ writeok)
            repeat == /\ args # NoArgs
                      /\ args.update = update
                      /\ result.status = "ok"
        IN /\ args' = [update |-> update, repeat |-> repeat]
           /\ result' = [status |-> IF ok THEN "ok" ELSE "error",
                         before |-> latest_version]
           /\ latest_version' = IF ok
                                 THEN updateLatestVersionDocument(latest_version, update)
                                 ELSE latest_version
           /\ UNCHANGED <<updates, clock, aggFailed>>
           /\ UNCHANGED <<reqVars, pkgVars, rlVars, s3Vars>>

InitAgg ==
    /\ args = NoArgs
    /\ result = [status |-> "none", before |-> <<>>]

NextAgg == CallUpdateLatest

InitSpecAgg == InitReq /\ InitUpd /\ InitPkg /\ InitAgg /\ InitRL /\ InitS3

SpecAgg == InitSpecAgg /\ [][NextAgg]_vars

RepeatedCall == args # NoArgs /\ args.repeat /\ result.status = "ok"

\* C7: a successful updateLatestVersionDocument run with the same update
\* record as the successful run just before it leaves the latest-version
\* document exactly as that first run left it.
C7_AggregationIdempotent ==
    RepeatedCall => latest_version = result.before

\* a repeated call whose first run wrote the document: the record's entry is
\* stored under its key
C7_Witness ==
    /\ RepeatedCall
    /\ HasLatest
    /\ latest_version[1].version = args.update.version
    /\ latest_version[1].platforms[KeyOf(args.update)] = EntryOf(args.update)
    /\ \E k \in DOMAIN latest_version[1].platforms :
          /\ k # KeyOf(args.update)
          /\ latest_version[1].platforms[k] # ZeroPlatform

\* ---------------------------------------------------- compareVersions, called alone
MaxVerLen == 3

VerAlphabet == { "1", "2", ".", "v", "-" }

RECURSIVE StringsUpTo(_)
StringsUpTo(n) ==
    IF n = 0 THEN { <<>> }
    ELSE LET shorter == StringsUpTo(n - 1)
         IN shorter \cup { Append(w, c) : w \in shorter, c \in VerAlphabet }

\* the version strings of the documented examples
V_1_10_0 == <<"1", ".", "1", "0", ".", "0">>
V_1_2_0  == <<"1", ".", "2", ".", "0">>
V_1_2    == <<"1", ".", "2">>
V_2_0_0  == <<"2", ".", "0", ".", "0">>

VerStrings == StringsUpTo(MaxVerLen) \cup { V_1_10_0, V_1_2_0, V_1_2, V_2_0_0 }

\* compareVersions applied to the pair in args, in both orders
CallCompareVersions ==
    /\ result = NoResult
    /\ result' = [v12 |-> compareVersions(args[1], args[2]),
                  v21 |-> compareVersions(args[2], args[1])]
    /\ UNCHANGED <<args, reqVars, updVars, pkgVars, rlVars, s3Vars>>

InitCmp ==
    /\ args \in VerStrings \X VerStrings
    /\ result = NoResult

NextCmp == CallCompareVersions

InitSpecCmp == InitReq /\ InitUpd /\ InitPkg /\ InitCmp /\ InitRL /\ InitS3

SpecCmp == InitSpecCmp /\ [][NextCmp]_vars

Compared == result # NoResult

\* a segment read as an integer: an optionally signed run of digits has its
\* value, every other segment counts as 0
RefInt(seg) ==
    LET body == IF seg # <<>> /\ seg[1] \in {"+", "-"} THEN Tail(seg) ELSE seg
        mag[i \in 0..Len(body)] ==
            IF i = 0 THEN 0 ELSE 10 * mag[i - 1] + DigitVal(body[i])
    IN IF body = <<>> \/ \E i \in 1..Len(body) : body[i] \notin Digits THEN 0
       ELSE IF seg[1] = "-" THEN 0 - mag[Len(body)] ELSE mag[Len(body)]

\* the reference comparison: the first differing shared segment decides, then
\* the number of segments
RefCompare(v1, v2) ==
    LET a == SplitDot(v1)
        b == SplitDot(v2)
        shared == { i \in 1..Len(a) : i <= Len(b) }
        diff == { i \in shared : RefInt(a[i]) # RefInt(b[i]) }
    IN IF diff # {}
       THEN LET i == CHOOSE j \in diff : \A k \in diff : j <= k
            IN IF RefInt(a[i]) > RefInt(b[i]) THEN 1 ELSE -1
       ELSE IF Len(a) > Len(b) THEN 1
       ELSE IF Len(a) < Len(b) THEN -1
       ELSE 0

WithoutLeadingV(v) == IF v # <<>> /\ v[1] = "v" THEN SubSeq(v, 2, Len(v)) ELSE v

C8_Examples ==
    /\ args = <<V_1_10_0, V_1_2_0>> => result.v12 > 0
    /\ args = <<V_1_2, V_1_2_0>> => result.v12 < 0
    /\ args = <<V_2_0_0, V_2_0_0>> => result.v12 = 0

C8_Antisymmetric == result.v12 = 0 - result.v21

\* C8 (as stated): compareVersions(v1, v2) equals the reference comparison of
\* the two strings as given; the three examples have the documented sign;
\* compare(a, b) = -compare(b, a).
C8_EqualsReference ==
    Compared => /\ result.v12 = RefCompare(args[1], args[2])
                /\ C8_Examples
                /\ C8_Antisymmetric

\* C8 (amended): compareVersions(v1, v2) equals the reference comparison of
\* the two strings after one leading "v" is removed from each; the three
\* examples have the documented sign; compare(a, b) = -compare(b, a).
C8_EqualsReferenceWithoutV ==
    Compared => /\ result.v12 = RefCompare(WithoutLeadingV(args[1]),
                                           WithoutLeadingV(args[2]))
                /\ C8_Examples
                /\ C8_Antisymmetric

\* a compared pair in which the leading "v" decides the answer
C8_Witness ==
    /\ Compared
    /\ args[1] # <<>> /\ args[1][1] = "v"
    /\ result.v12 = 1
    /\ RefCompare(args[1], args[2]) = -1

\* --------------------------------------- isValidPlatform / isValidArch, called alone
\* strings a client may put in the {platform} and {arch} path parameters
ParamStrings ==
    { "windows", "darwin", "linux", "x86_64", "i686", "armv7", "aarch64",
      "x86", "arm64", "Linux", "WINDOWS", "X86_64", "Arm64", "macos", "x64",
      "amd64", "linux-x86_64", "" }

\* both validators applied to the pair in args
CallValidators ==
    /\ result = NoResult
    /\ result' = [platform |-> isValidPlatform(args[1]),
                  arch     |-> isValidArch(args[2])]
    /\ UNCHANGED <<args, reqVars, updVars, pkgVars, rlVars, s3Vars>>

InitValid ==
    /\ args \in ParamStrings \X ParamStrings
    /\ result = NoResult

NextValid == CallValidators

InitSpecValid == InitReq /\ InitUpd /\ InitPkg /\ InitValid /\ InitRL /\ InitS3

SpecValid == InitSpecValid /\ [][NextValid]_vars

Validated == result # NoResult

PlatformEnum == { "windows", "darwin", "linux" }
ArchEnum == { "x86_64", "i686", "armv7", "aarch64" }
ArchAliases == { "x86", "arm64" }

RequestsPerSecond == 1
BurstSize == 5

\* time advances in ticks; a bucket counts tokens in units of 1/TicksPerSecond
TicksPerSecond == 2
MaxTime == 3
MaxRequests == 7

ClientIPs == { "ip1", "ip2" }

TokenCost == TicksPerSecond
BucketFull == BurstSize * TicksPerSecond

\* (mutant) a bucket that never refills
neverRefill(tokens, elapsed) == tokens

\* rate.Limiter: tokens accrue at RequestsPerSecond up to the burst
refill(tokens, elapsed) ==
    LET t == tokens + elapsed * RequestsPerSecond
    IN IF t > BucketFull THEN BucketFull ELSE t

\* rate.NewLimiter(RequestsPerSecond, BurstSize): the bucket starts full
NewLimiter(t) == [tokens |-> BucketFull, last |-> t]

\* limiter.Allow() at time t: one token is taken if one is there
Allow(lim, t) ==
    LET tokens == refill(lim.tokens, t - lim.last)
    IN IF tokens >= TokenCost
       THEN [ok |-> TRUE, limiter |-> [tokens |-> tokens - TokenCost, last |-> t]]
       ELSE [ok |-> FALSE, limiter |-> lim]

\* getVisitor: the visitor of ip, created on first sight, lastSeen refreshed
getVisitor(vs, ip, t) ==
    IF ip \notin DOMAIN vs
    THEN [limiter |-> NewLimiter(t), lastSeen |-> t]
    ELSE [vs[ip] EXCEPT !.lastSeen = t]

\* the RateLimit middleware on one request: 429 and abort, or c.Next()
RateLimit(ip) ==
    /\ Len(rlLog) < MaxRequests
    /\ LET v == getVisitor(visitors, ip, now)
           a == Allow(v.limiter, now)
       IN /\ visitors' = Put(visitors, ip, [v EXCEPT !.limiter = a.limiter])
          /\ rlLog' = Append(rlLog, [ip |-> ip, at |-> now,
                                     fresh |-> ip \notin DOMAIN visitors,
                                     status |-> IF a.ok THEN 0 ELSE 429])
    /\ UNCHANGED <<now, mu, sweeper, orphans>>
    /\ UNCHANGED <<reqVars, updVars, pkgVars, callVars, s3Vars>>

\* time passes
Tick ==
    /\ now < MaxTime
    /\ now' = now + 1
    /\ UNCHANGED <<visitors, rlLog, mu, sweeper, orphans>>
    /\ UNCHANGED <<reqVars, updVars, pkgVars, callVars, s3Vars>>

NextRL ==
    \/ \E ip \in ClientIPs : RateLimit(ip)
    \/ Tick

InitSpecRL == InitReq /\ InitUpd /\ InitPkg /\ InitCall /\ InitRL /\ InitS3

SpecRL == InitSpecRL /\ [][NextRL]_vars

\* the requests of one client, in order
RequestsOf(ip) == SelectSeq(rlLog, LAMBDA e : e.ip = ip)

Admitted(e) == e.status # 429

\* C10: for a client not seen before, the requests issued at the instant of
\* its first request are admitted up to the fifth, the sixth at that instant
\* is answered 429, and after those six a request one second later is
\* admitted.
C10_BurstThenOnePerSecond ==
    \A ip \in ClientIPs :
        LET L == RequestsOf(ip)
        IN /\ \A i \in 1..Len(L) :
                i <= BurstSize /\ L[i].at = L[1].at => Admitted(L[i])
           /\ Len(L) > BurstSize /\ L[BurstSize + 1].at = L[1].at
                => ~Admitted(L[BurstSize + 1])
           /\ ( /\ Len(L) > BurstSize + 1
                /\ L[BurstSize + 1].at = L[1].at
                /\ L[BurstSize + 2].at = L[1].at + TicksPerSecond )
                => Admitted(L[BurstSize + 2])

\* a new client sent six requests at one instant and a seventh a second later
C10_Witness ==
    \E ip \in ClientIPs :
        LET L == RequestsOf(ip)
        IN /\ Len(L) = BurstSize + 2
           /\ L[1].fresh
           /\ L[BurstSize + 1].at = L[1].at
           /\ ~Admitted(L[BurstSize + 1])
           /\ L[BurstSize + 2].at = L[1].at + TicksPerSecond
           /\ Admitted(L[BurstSize + 2])

\* ----------------------------------------------------------- the package track
MaxFiles == 2

PkgNames     == { "pkgA", "pkgB" }
PkgVersions  == { "1.0", "2.0" }
PkgFilenames == { "a.bin", "b.bin" }
PkgData      == { "d1" }

\* fmt.Sprintf("%x", sha256 of the bytes)
SHA256(data) == <<"sha256", data>>

\* files.go line 36: the key processUploadedFile writes
UploadS3Key(fileHash, filename) == <<"packages", fileHash, filename>>

\* download.go line 67: the key DownloadPackage looks up
DownloadS3Key(name, version, filename) == <<"packages", name, version, filename>>

\* S3Service.GetSignedURL: a presigned GET of the key
GetSignedURL(key) == <<"signed", key>>

\* S3Service.Exists: HeadObject finds the key
Exists(store, key) == key \in DOMAIN store

\* (mutant) every name has a package
anyPackage(name) == TRUE

\* GetPackage: the package document with that name, nil if none
GetPackage(name) == name \in packages

\* FindOne / UpdateOne filter {package_id, version}: the first match, 0 if none
GetVersion(coll, packageID, version) ==
    LET m == { i \in 1..Len(coll) : /\ coll[i].package_id = packageID
                                    /\ coll[i].version = version }
    IN IF m = {} THEN 0 ELSE CHOOSE i \in m : \A j \in m : i <= j

\* CreateVersion: InsertOne of a version holding the one file
CreateVersion(coll, packageID, version, file) ==
    Append(coll, [package_id |-> packageID, version |-> version, files |-> <<file>>])

\* AddFileToVersion: $push on the first matching version
AddFileToVersion(coll, packageID, version, file) ==
    LET i == GetVersion(coll, packageID, version)
    IN IF i = 0 THEN coll ELSE [coll EXCEPT ![i].files = Append(@, file)]

\* (mutant) the version is dropped with its last file
removeFileOrVersion(coll, packageID, version, filename) ==
    SelectSeq(coll, LAMBDA d : ~( /\ d.package_id = packageID
                                  /\ d.version = version
                                  /\ \A k \in 1..Len(d.files) : d.files[k].name = filename ))

\* RemoveFileFromVersion: $pull of every file with that name from the first
\* matching version
RemoveFileFromVersion(coll, packageID, version, filename) ==
    LET i == GetVersion(coll, packageID, version)
    IN IF i = 0 THEN coll
       ELSE [coll EXCEPT ![i].files = SelectSeq(@, LAMBDA f : f.name # filename)]

\* the first file of that name in a version's list, found by the loop of
\* DownloadPackage (lines 54-60); 0 if none
FindFile(files, filename) ==
    LET m == { i \in 1..Len(files) : files[i].name = filename }
    IN IF m = {} THEN 0 ELSE CHOOSE i \in m : \A j \in m : i <= j

\* the files the catalog holds
CatalogFiles ==
    LET RECURSIVE Count(_)
        Count(i) == IF i = 0 THEN 0 ELSE Len(versions[i].files) + Count(i - 1)
    IN Count(Len(versions))

UploadOutcomes == { "ok", "getpkgfail", "noform", "s3fail", "signfail",
                    "getverfail" }

PkgError(name, version, filename, msg) ==
    [name |-> name, version |-> version, filename |-> filename,
     error |-> msg, location |-> <<>>, file |-> <<>>]

\* uploads that read the version and have not yet written the catalog
PendingPkg == Cardinality({ q \in Procs : pc[q] = "pkg_write" })

\* UploadPackage, lines 143-181, with processUploadedFile: the package, the
\* form file, the object and its signed URL, then the read of the version
UploadPackageBegin(p) ==
    /\ pc[p] = "idle"
    /\ CatalogFiles + PendingPkg < MaxFiles
    /\ \E name \in PkgNames, version \in PkgVersions, filename \in PkgFilenames,
          data \in PkgData, outcome \in UploadOutcomes :
         LET fileHash == SHA256(data)
             s3Key    == UploadS3Key(fileHash, filename)
             file     == [name |-> filename, hash |-> fileHash,
                          download_url |-> GetSignedURL(s3Key)]
             stored   == Put(objects, s3Key, data)
             Fail(status, msg) ==
                 Respond(p, "UploadPackage", status,
                         PkgError(name, version, filename, msg))
         IN IF outcome = "getpkgfail"
            THEN Fail(500, "Failed to retrieve package") /\ UNCHANGED objects
            ELSE IF ~GetPackage(name)
            THEN Fail(404, "Package not found") /\ UNCHANGED objects
            ELSE IF outcome = "noform"
            THEN Fail(400, "Failed to get uploaded file") /\ UNCHANGED objects
            ELSE IF outcome = "s3fail"
            THEN Fail(500, "Failed to process uploaded file") /\ UNCHANGED objects
            ELSE IF outcome = "signfail"
            THEN Fail(500, "Failed to process uploaded file") /\ objects' = stored
            ELSE IF outcome = "getverfail"
            THEN Fail(500, "Failed to check version") /\ objects' = stored
            ELSE /\ objects' = stored
                 /\ pc' = [pc EXCEPT ![p] = "pkg_write"]
                 /\ req' = [req EXCEPT ![p] =
                        [IdleReq EXCEPT !.name = name, !.version = version,
                                        !.filename = filename, !.file = file,
                                        !.found = GetVersion(versions, name, version) # 0]]
                 /\ Silent
    /\ UNCHANGED <<packages, versions, updVars, callVars, rlVars, s3Vars>>

\* UploadPackage, lines 183-207: CreateVersion if the read found no version,
\* AddFileToVersion if it found one
UploadPackageWrite(p) ==
    /\ pc[p] = "pkg_write"
    /\ LET r == req[p]
       IN \E dbok \in BOOLEAN :
            IF ~dbok
            THEN /\ Respond(p, "UploadPackage", 500,
                            PkgError(r.name, r.version, r.filename,
                                     IF r.found THEN "Failed to add file to version"
                                                ELSE "Failed to create version"))
                 /\ UNCHANGED versions
            ELSE /\ versions' = IF r.found
                                 THEN AddFileToVersion(versions, r.name, r.version, r.file)
                                 ELSE CreateVersion(versions, r.name, r.version, r.file)
                 /\ Respond(p, "UploadPackage", 200,
                            [PkgError(r.name, r.version, r.filename, "")
                                EXCEPT !.file = r.file])
    /\ UNCHANGED <<objects, packages, updVars, callVars, rlVars, s3Vars>>

DownloadOutcomes == { "ok", "getpkgfail", "getverfail", "existsfail", "signfail" }

\* DownloadPackage, entered at position from of the handler chain
DownloadPackageHandler(p, from) ==
    /\ pc[p] = from
    /\ \E name \in PkgNames, version \in PkgVersions, filename \in PkgFilenames,
          outcome \in DownloadOutcomes :
         LET v     == GetVersion(versions, name, version)
             s3Key == DownloadS3Key(name, version, filename)
             Fail(status, msg) ==
                 Respond(p, "DownloadPackage", status,
                         PkgError(name, version, filename, msg))
         IN IF outcome = "getpkgfail" THEN Fail(500, "Failed to retrieve package")
            ELSE IF ~GetPackage(name) THEN Fail(404, "Package not found")
            ELSE IF outcome = "getverfail" THEN Fail(500, "Failed to retrieve version")
            ELSE IF v = 0 THEN Fail(404, "Version not found")
            ELSE IF FindFile(versions[v].files, filename) = 0
            THEN Fail(404, "File not found")
            ELSE IF outcome = "existsfail"
            THEN Fail(500, "Failed to check file existence")
            ELSE IF ~Exists(objects, s3Key) THEN Fail(404, "File not found in storage")
            ELSE IF outcome = "signfail"
            THEN Fail(500, "Failed to generate download URL")
            ELSE Respond(p, "DownloadPackage", 307,
                         [PkgError(name, version, filename, "")
                             EXCEPT !.location = GetSignedURL(s3Key)])
    /\ UNCHANGED <<objects, pkgVars, updVars, callVars, rlVars, s3Vars>>

DownloadPackage(p) == DownloadPackageHandler(p, "idle")

DeletePkgOutcomes == { "ok", "getpkgfail", "removefail" }

\* DeletePackage: the file leaves the catalog, the object stays in storage
DeletePackage(p) ==
    /\ pc[p] = "idle"
    /\ \E name \in PkgNames, version \in PkgVersions, filename \in PkgFilenames,
          outcome \in DeletePkgOutcomes :
         LET Fail(status, msg) ==
                 Respond(p, "DeletePackage", status,
                         PkgError(name, version, filename, msg))
         IN IF outcome = "getpkgfail"
            THEN Fail(500, "Failed to retrieve package") /\ UNCHANGED versions
            ELSE IF ~GetPackage(name)
            THEN Fail(404, "Package not found") /\ UNCHANGED versions
            ELSE IF outcome = "removefail"
            THEN Fail(500, "Failed to remove file") /\ UNCHANGED versions
            ELSE /\ versions' = RemoveFileFromVersion(versions, name, version, filename)
                 /\ Respond(p, "DeletePackage", 200,
                            PkgError(name, version, filename, ""))
    /\ UNCHANGED <<objects, packages, updVars, callVars, rlVars, s3Vars>>

NextPkg ==
    \E p \in Procs :
        \/ UploadPackageBegin(p)
        \/ UploadPackageWrite(p)
        \/ DownloadPackage(p)
        \/ DeletePackage(p)

SpecPkg == Init /\ [][NextPkg]_vars

\* the file a download of (name, version, filename) finds in the catalog
CatalogFile(name, version, filename) ==
    LET v == GetVersion(versions, name, version)
    IN versions[v].files[FindFile(versions[v].files, filename)]

InCatalog(name, version, filename) ==
    LET v == GetVersion(versions, name, version)
    IN v # 0 /\ FindFile(versions[v].files, filename) # 0

\* C2: a DownloadPackage of a file that a successful UploadPackage put in the
\* catalog under (package, version, filename), answered without a database or
\* storage error, redirects to the object the upload wrote: the object
\* exists and its bytes have the content hash the catalog recorded.
C2_DownloadResolvesUploadedObject ==
    ( /\ resp.op = "DownloadPackage"
      /\ resp.status # 500
      /\ InCatalog(resp.body.name, resp.body.version, resp.body.filename) )
    => /\ resp.status = 307
       /\ \E key \in DOMAIN objects :
            /\ resp.body.location = GetSignedURL(key)
            /\ SHA256(objects[key]) =
                 CatalogFile(resp.body.name, resp.body.version, resp.body.filename).hash

\* a DeletePackage answered 200 in this step
DeletedFileStep ==
    /\ resp'.op = "DeletePackage"
    /\ resp'.status = 200
    /\ \A p \in Procs : pc'[p] = pc[p]

\* C11: a successful DeletePackage(name, version, filename) leaves the package
\* records and the number and identity of the version records as they were,
\* removes exactly the File records named filename from the first version
\* record of (name, version), and changes no other File record.
C11_DeleteRemovesOnlyNamedFile ==
    [][DeletedFileStep =>
        LET b == resp'.body
            v == GetVersion(versions, b.name, b.version)
        IN /\ packages' = packages
           /\ Len(versions') = Len(versions)
           /\ \A i \in 1..Len(versions) :
                /\ versions'[i].package_id = versions[i].package_id
                /\ versions'[i].version = versions[i].version
                /\ versions'[i].files =
                     IF i = v
                     THEN SelectSeq(versions[i].files, LAMBDA f : f.name # b.filename)
                     ELSE versions[i].files]_vars

\* the delete that emptied a version's file list left the version in place,
\* next to another version that still holds its file
C11_Witness ==
    /\ resp.op = "DeletePackage" /\ resp.status = 200
    /\ InCatalog(resp.body.name, resp.body.version, resp.body.filename) = FALSE
    /\ \E i \in 1..Len(versions) :
          /\ versions[i].package_id = resp.body.name
          /\ versions[i].version = resp.body.version
          /\ versions[i].files = <<>>
    /\ \E i \in 1..Len(versions) :
          /\ versions[i].version # resp.body.version
          /\ versions[i].files # <<>>

\* C12: an UploadPackage naming a package that has no package record is
\* answered 404 "Package not found" (500 if the lookup itself fails) and
\* leaves packages, versions and the object store as they were.
C12_UnknownPackageUploadHasNoEffect ==
    [][(resp'.op = "UploadPackage" /\ resp'.body.name \notin packages) =>
        /\ \/ resp'.status = 404 /\ resp'.body.error = "Package not found"
           \/ resp'.status = 500 /\ resp'.body.error = "Failed to retrieve package"
        /\ packages' = packages
        /\ versions' = versions
        /\ objects' = objects]_vars

\* an upload against an unknown package was refused while the catalog and the
\* store held an earlier upload
C12_Witness ==
    /\ resp.op = "UploadPackage"
    /\ resp.status = 404
    /\ resp.body.name \notin packages
    /\ versions # <<>>
    /\ objects # <<>>

\* C14: the versions collection never holds two records with the same
\* (package_id, version), also when two uploads both read the version as
\* absent before either creates it.
C14_OneVersionPerIdentity ==
    \A i, j \in 1..Len(versions) :
        ( /\ versions[i].package_id = versions[j].package_id
          /\ versions[i].version = versions[j].version ) => i = j

\* C20: no version record holds two File records with the same name.
C20_FileNamesUniqueInVersion ==
    \A i \in 1..Len(versions) :
        \A a, b \in 1..Len(versions[i].files) :
            versions[i].files[a].name = versions[i].files[b].name => a = b

\* C16: the latest_version collection holds at most one document in every
\* reachable state, two concurrent first uploads included, and once it holds
\* a document it never becomes empty again.
C16_LatestVersionSingleton ==
    /\ [](Len(latest_version) <= 1)
    /\ [][latest_version # <<>> => latest_version' # <<>>]_vars

\* C15: the updates collection never holds two records with the same
\* (version, platform, arch), also when two uploads of one triple run
\* concurrently.
C15_OneUpdatePerTriple ==
    \A i \in 1..Len(updates) : OnlyRecord(i)

\* C17: the step in which the read or the upsert of the latest-version
\* document fails does not answer the upload with 201.
C17_AggregationFailureAborts ==
    [][(~aggFailed /\ aggFailed') => resp'.status # 201]_vars

\* C18: in the step in which DeleteUpdate answers after it found the record,
\* with success or with an error, the record of its triple and the object at
\* updates/{version}/{platform}/{arch}/{filename} both exist or both do not.
C18_RecordAndObjectDeletedTogether ==
    [][\A p \in Procs :
         (pc[p] \in {"del_obj", "del_sig", "del_rec"} /\ pc'[p] = "idle") =>
            LET r == req[p]
                key == UpdateKey(r.version, r.platform, r.arch, r.update.filename)
                recorded == \E i \in 1..Len(updates') :
                                /\ updates'[i].version = r.version
                                /\ updates'[i].platform = r.platform
                                /\ updates'[i].arch = r.arch
            IN recorded <=> key \in DOMAIN objects'
      ]_vars

\* ------------------------------------------------ S3Service.Delete, called alone
\* the bound of the wait for the object's absence, in seconds
WaitSeconds == 30

S3Keys == { UploadS3Key(SHA256("d1"), "a.bin"),
            UpdateKey(<<"1", ".", "0">>, "linux", "x86_64", "app.bin") }

\* the stores a call may find
S3Stores == { [k \in K |-> "d1"] : K \in SUBSET S3Keys }

\* a call of S3Service.Delete is between its DeleteObject and its return
Deleting == args # NoArgs /\ result = NoResult

\* (mutant) Delete returns success as soon as DeleteObject has answered
noWait(store, key, headok) == "ok"

\* one HeadObject of ObjectNotExistsWaiter: NotFound ends the wait with
\* success, another error ends it with that error, a found object retries
headObjectWait(store, key, headok) ==
    IF ~headok THEN "error"
    ELSE IF ~Exists(store, key) THEN "ok"
    ELSE "retry"

\* lines 318-331: DeleteObject; an error is returned at once, an accepted
\* delete becomes visible when the store applies it
S3DeleteObject(key) ==
    /\ ~Deleting
    /\ \E reqok \in BOOLEAN :
         /\ args' = [key |-> key, seenAbsent |-> FALSE]
         /\ result' = IF reqok THEN NoResult ELSE [error |-> "s3 delete failed"]
         /\ deleting' = IF reqok /\ Exists(objects, key)
                         THEN deleting \cup {key} ELSE deleting
    /\ waited' = 0
    /\ UNCHANGED <<pc, req, resp, objects, updVars, pkgVars, rlVars>>

\* the store applies an accepted delete
S3ApplyDelete(key) ==
    /\ key \in deleting
    /\ objects' = Remove(objects, key)
    /\ deleting' = deleting \ {key}
    /\ UNCHANGED <<pc, req, resp, waited, updVars, pkgVars, callVars, rlVars>>

\* lines 333-343: one existence check of the waiter, within the bound
S3WaitCheck ==
    /\ Deleting
    /\ waited < WaitSeconds
    /\ \E headok \in BOOLEAN :
         LET r == headObjectWait(objects, args.key, headok)
         IN /\ result' = IF r = "retry" THEN NoResult
                         ELSE IF r = "ok" THEN [error |-> ""]
                         ELSE [error |-> "error waiting for object deletion"]
            /\ args' = [args EXCEPT !.seenAbsent = headok /\ ~Exists(objects, args.key)]
    /\ UNCHANGED <<reqVars, updVars, pkgVars, rlVars, s3Vars>>

\* a second of the wait passes
S3WaitSecond ==
    /\ Deleting
    /\ waited < WaitSeconds
    /\ waited' = waited + 1
    /\ UNCHANGED <<deleting, reqVars, updVars, pkgVars, callVars, rlVars>>

\* the bound is reached: "error waiting for object deletion"
S3WaitTimeout ==
    /\ Deleting
    /\ waited >= WaitSeconds
    /\ result' = [error |-> "error waiting for object deletion"]
    /\ UNCHANGED <<args, reqVars, updVars, pkgVars, rlVars, s3Vars>>

InitS3Call ==
    /\ objects \in S3Stores
    /\ pc = [p \in Procs |-> "idle"]
    /\ req = [p \in Procs |-> IdleReq]
    /\ resp = NoResp

InitSpecS3 == InitS3Call /\ InitUpd /\ InitPkg /\ InitCall /\ InitRL /\ InitS3

NextS3 ==
    \/ \E key \in S3Keys : S3DeleteObject(key)
    \/ \E key \in S3Keys : S3ApplyDelete(key)
    \/ S3WaitCheck
    \/ S3WaitSecond
    \/ S3WaitTimeout

SpecS3 == InitSpecS3 /\ [][NextS3]_vars

Returned == args # NoArgs /\ result # NoResult

\* C19: a call of S3Service.Delete that returned success saw the object
\* absent in an existence check made within the 30 seconds of its wait, and
\* the object is absent; a call that returned without such a check returned
\* an error.
C19_SuccessOnlyAfterAbsenceObserved ==
    Returned =>
        /\ result.error = "" => /\ args.seenAbsent
                                /\ ~Exists(objects, args.key)
                                /\ waited < WaitSeconds
        /\ ~args.seenAbsent => result.error # ""

\* a delete whose object stayed visible for some seconds of the wait and
\* which returned success once a check found it gone
C19_Witness ==
    /\ Returned
    /\ result.error = ""
    /\ waited > 0
    /\ args.seenAbsent
    /\ objects # <<>>

\* ------------------------------------------------------- both upload tracks
\* a run in which the clients call the update routes, or one in which they
\* call the package routes; args names the track
InitUploads ==
    /\ args \in { "updates", "packages" }
    /\ result = NoResult

InitSpecUploads == InitReq /\ InitUpd /\ InitPkg /\ InitUploads /\ InitRL /\ InitS3

NextUploads ==
    \/ args = "updates" /\ Next
    \/ args = "packages" /\ NextPkg

SpecUploads == InitSpecUploads /\ [][NextUploads]_vars

\* the step in which the put of an UploadUpdate failed
UpdatePutFailed == \E p \in Procs : pc[p] = "upload" /\ pc'[p] = "idle"

\* the step in which processUploadedFile of an UploadPackage failed
PackagePutFailed ==
    /\ resp'.op = "UploadPackage"
    /\ resp'.body.error = "Failed to process uploaded file"

\* C13: the step in which the object-store put of an UploadUpdate or of an
\* UploadPackage fails answers 500 and leaves versions, updates and the
\* latest-version document as they were.
C13_FailedPutLeavesCatalog ==
    [][(UpdatePutFailed \/ PackagePutFailed) =>
        /\ resp'.status = 500
        /\ versions' = versions
        /\ updates' = updates
        /\ latest_version' = latest_version]_vars

\* a put failed after an earlier upload had filled the catalog
C13_Witness ==
    /\ resp.op = "UploadUpdate"
    /\ resp.status = 500
    /\ resp.body = PutFailedBody
    /\ updates # <<>>
    /\ latest_version # <<>>

\* C21: a DeletePackage for a package that has a record, naming a version
\* that does not exist or a filename that is not in that version's file list,
\* is answered 404 (500 if a database call fails) and never 200.
C21_DeleteOfAbsentFileNotFound ==
    [][( /\ resp'.op = "DeletePackage"
         /\ resp'.body.name \in packages
         /\ ~InCatalog(resp'.body.name, resp'.body.version, resp'.body.filename)
         /\ resp'.status # 500 )
       => resp'.status = 404]_vars

\* ------------------------------------------------------- GetLatestUpdate
\* the byte value of a character of a version string
CharCode(c) ==
    CASE c = "-" -> 45 [] c = "." -> 46 [] c = "v" -> 118
      [] OTHER -> 48 + DigitVal(c)

\* the order of the sort {version: -1} of FindOne, line 195: version is a
\* string field, and the database compares strings byte by byte, a proper
\* prefix before the longer string
RECURSIVE sortCompare(_, _)
sortCompare(a, b) ==
    IF a = <<>> THEN (IF b = <<>> THEN 0 ELSE -1)
    ELSE IF b = <<>> THEN 1
    ELSE IF Head(a) = Head(b) THEN sortCompare(Tail(a), Tail(b))
    ELSE IF CharCode(Head(a)) < CharCode(Head(b)) THEN -1 ELSE 1

\* GetLatestUpdate, lines 177-222; every error of FindOne, no document
\* included, is answered 404
GetLatestUpdate(p) ==
    /\ pc[p] = "idle"
    /\ \E platform \in ReqPlatforms, arch \in ReqArchs, dbok \in BOOLEAN :
         LET m   == { i \in 1..Len(updates) : /\ updates[i].platform = platform
                                              /\ updates[i].arch = arch }
             top == { i \in m : \A j \in m :
                         sortCompare(updates[j].version, updates[i].version) <= 0 }
             Fail(status, msg) ==
                 Respond(p, "GetLatestUpdate", status,
                         [platform |-> platform, arch |-> arch, error |-> msg])
         IN IF ~isValidPlatform(platform)
            THEN Fail(400, "Invalid platform. Must be one of: windows, macos, linux")
            ELSE IF ~isValidArch(arch)
            THEN Fail(400, "Invalid arch. Must be one of: x86, x64, arm64")
            ELSE IF ~dbok \/ m = {}
            THEN Fail(404, "No updates found for this platform")
            ELSE \E i \in top :
                   Respond(p, "GetLatestUpdate", 200,
                           [version |-> updates[i].version,
                            platform |-> updates[i].platform,
                            arch |-> updates[i].arch,
                            release_date |-> updates[i].release_date,
                            notes |-> updates[i].notes,
                            download_url |-> updates[i].download_url,
                            error |-> ""])
    /\ UNCHANGED <<updates, latest_version, objects, clock, aggFailed>>
    /\ UNCHANGED <<pkgVars, callVars, rlVars, s3Vars>>

\* the records that MaxStored successful uploads, one after the other, of
\* these versions for linux leave in the updates collection
MaxStored == 2
LatestVersions == { <<"1", ".", "9">>, <<"1", ".", "1", "0">>, <<"2", ".", "0">> }

StoredUpdate(v, a, d) ==
    [version |-> v, platform |-> "linux", arch |-> a, filename |-> "app.bin",
     signature |-> "", release_date |-> d, notes |-> "",
     download_url |-> UpdateDownloadURL(v, "linux", a, "app.bin")]

StoredCollections ==
    { <<>> } \cup
    { <<StoredUpdate(v, a, 1)>> : v \in LatestVersions, a \in AggArchs } \cup
    { c \in { <<StoredUpdate(v1, a1, 1), StoredUpdate(v2, a2, 2)>> :
                v1 \in LatestVersions, a1 \in AggArchs,
                v2 \in LatestVersions, a2 \in AggArchs } :
        MaxStored >= 2 /\ (c[1].version # c[2].version \/ c[1].arch # c[2].arch) }

RECURSIVE aggregateAll(_, _)
aggregateAll(coll, n) ==
    IF n = 0 THEN <<>>
    ELSE updateLatestVersionDocument(aggregateAll(coll, n - 1), coll[n])

InitLatest ==
    /\ updates \in StoredCollections
    /\ latest_version = aggregateAll(updates, Len(updates))
    /\ clock = Len(updates)
    /\ aggFailed = FALSE
    /\ objects = [k \in { UpdateKey(updates[i].version, updates[i].platform,
                                    updates[i].arch, updates[i].filename) :
                            i \in 1..Len(updates) } |-> UpdateData]
    /\ pc = [p \in Procs |-> "idle"]
    /\ req = [p \in Procs |-> IdleReq]
    /\ resp = NoResp

InitSpecLatest == InitLatest /\ InitPkg /\ InitCall /\ InitRL /\ InitS3

NextLatest == \E p \in Procs : GetLatestUpdate(p)

SpecLatest == InitSpecLatest /\ [][NextLatest]_vars

\* the stored updates of a (platform, arch) pair
StoredFor(platform, arch) ==
    { i \in 1..Len(updates) : /\ updates[i].platform = platform
                              /\ updates[i].arch = arch }

\* C22: GetLatestUpdate(platform, arch) answers 200 with a stored update of
\* that pair whose version no stored update of the pair exceeds under
\* compareVersions, and answers 404 when no update is stored for the pair.
C22_LatestIsGreatestByCompareVersions ==
    resp.op = "GetLatestUpdate" =>
        /\ resp.status = 200 =>
             /\ \E i \in StoredFor(resp.body.platform, resp.body.arch) :
                    updates[i].version = resp.body.version
             /\ \A i \in StoredFor(resp.body.platform, resp.body.arch) :
                    compareVersions(updates[i].version, resp.body.version) <= 0
        /\ ( /\ resp.status # 400
             /\ StoredFor(resp.body.platform, resp.body.arch) = {} )
           => resp.status = 404

\* a step of a DeleteUpdate request: its first step, or a step of a request
\* that is past the lookup
DeleteUpdateStep ==
    \E p \in Procs :
        \/ pc[p] \in {"del_obj", "del_sig", "del_rec"} /\ pc'[p] # pc[p]
        \/ pc[p] = "idle" /\ pc'[p] = "del_obj"
        \/ pc[p] = "idle" /\ resp'.op = "DeleteUpdate" /\ resp'.proc = p

\* C26: no step of DeleteUpdate changes the latest_version collection: the
\* stored aggregate is the same before and after any DeleteUpdate, also after
\* the delete of the update a platform entry or the headline was taken from.
C26_DeleteUpdateLeavesLatestVersion ==
    [][DeleteUpdateStep => latest_version' = latest_version]_vars

\* a DeleteUpdate answered 200 removed the only record and the object of the
\* update whose version is the headline and whose URL is in its platform entry
C26_Witness ==
    /\ resp.op = "DeleteUpdate" /\ resp.status = 200
    /\ updates = <<>>
    /\ objects = <<>>
    /\ latest_version # <<>>
    /\ latest_version[1].version = resp.body.version
    /\ latest_version[1].platforms[PlatformKey(resp.body.platform, resp.body.arch)].url
         = UpdateDownloadURL(resp.body.version, resp.body.platform, resp.body.arch,
                             "app.bin")

\* ------------------------------------------------------- DownloadUpdate
\* the versions a download path may carry: as sent to an upload, or as a
\* download_url carries them
DownloadVersions == ReqVersions \cup { TrimPrefixV(v) : v \in ReqVersions }

DownloadUpdateOutcomes == { "ok", "existsfail", "sizefail", "getfail" }

\* DownloadUpdate, lines 238-307, entered at position from of the handler
\* chain; the response keeps the request's parameters, the key looked up
\* and the bytes streamed
DownloadUpdateHandler(p, from) ==
    /\ pc[p] = from
    /\ \E version \in DownloadVersions, platform \in ReqPlatforms, arch \in ReqArchs,
          filename \in ReqFilenames, outcome \in DownloadUpdateOutcomes :
         LET key == UpdateKey(TrimPrefixV(version), platform, arch, filename)
             Answer(status, msg, data) ==
                 Respond(p, "DownloadUpdate", status,
                         [version |-> version, platform |-> platform, arch |-> arch,
                          filename |-> filename, key |-> key, error |-> msg,
                          data |-> data])
         IN IF ~isValidPlatform(platform)
            THEN Answer(400, "Invalid platform. Must be one of: windows, darwin, linux", "")
            ELSE IF ~isValidArch(arch)
            THEN Answer(400, "Invalid arch. Must be one of: x86_64, i686, armv7, aarch64", "")
            ELSE IF outcome = "existsfail"
            THEN Answer(500, "Failed to check if update file exists", "")
            ELSE IF ~Exists(objects, key) THEN Answer(404, "Update file not found", "")
            ELSE IF outcome = "sizefail" THEN Answer(500, "Failed to get file size", "")
            ELSE IF outcome = "getfail"
            THEN Answer(500, "Failed to download update file", "")
            ELSE Answer(200, "", objects[key])
    /\ UNCHANGED <<objects, updVars, pkgVars, callVars, rlVars, s3Vars>>

DownloadUpdate(p) == DownloadUpdateHandler(p, "idle")

\* the update routes served one request at a time: a request starts only
\* when no other request is in progress
NextSeq ==
    \E p \in Procs :
        /\ \A q \in Procs \ {p} : pc[q] = "idle"
        /\ \/ UploadUpdateBegin(p)
           \/ UploadUpdateStore(p)
           \/ UploadUpdateInsert(p)
           \/ UpdateLatestRead(p)
           \/ UpdateLatestWrite(p)
           \/ DeleteUpdateBegin(p)
           \/ DeleteUpdateObject(p)
           \/ DeleteUpdateSignature(p)
           \/ DeleteUpdateRecord(p)
           \/ GetLatestVersionInfo(p)
           \/ GetLatestUpdate(p)
           \/ DownloadUpdate(p)

SpecSeq == Init /\ [][NextSeq]_vars

\* the version a stored download URL names
URLVersion(url) == url[5]

\* the platform entry the first document of a latest_version collection holds
StoredEntry(coll, k) ==
    IF coll = <<>> THEN ZeroPlatform
    ELSE IF k \notin DOMAIN coll[1].platforms THEN ZeroPlatform
    ELSE coll[1].platforms[k]

\* C27: when UploadUpdate requests do not overlap, after every step that
\* changes the latest-version document (it starts empty) the version in the
\* URL of every non-empty platform entry does not compare greater than the
\* headline version, and every write of a non-empty entry writes the URL of
\* the version that is the headline after that write.
C27_EntryNotNewerThanHeadline ==
    [][latest_version' # latest_version =>
        /\ \A i \in 1..Len(latest_version') :
             \A k \in DOMAIN latest_version'[i].platforms :
                latest_version'[i].platforms[k].url # <<>> =>
                   compareVersions(URLVersion(latest_version'[i].platforms[k].url),
                                   latest_version'[i].version) <= 0
        /\ \A k \in generateAllPlatformKeys :
             ( /\ StoredEntry(latest_version', k) # ZeroPlatform
               /\ StoredEntry(latest_version', k) # StoredEntry(latest_version, k) )
             => URLVersion(StoredEntry(latest_version', k).url)
                  = latest_version'[1].version]_vars

\* an entry of an older version stands next to a newer headline
C27_Witness ==
    /\ AllIdle
    /\ latest_version # <<>>
    /\ \E k \in DOMAIN latest_version[1].platforms :
          /\ latest_version[1].platforms[k].url # <<>>
          /\ compareVersions(URLVersion(latest_version[1].platforms[k].url),
                             latest_version[1].version) < 0

RecordsOfPath ==
    { i \in 1..Len(updates) :
        updates[i].download_url =
            UpdateDownloadURL(resp.body.version, resp.body.platform,
                              resp.body.arch, resp.body.filename) }

\* C30: a DownloadUpdate of the download_url of a stored update record (the
\* record of a successful UploadUpdate for which no DeleteUpdate has
\* succeeded) looks up the key the upload wrote and, unless a store call
\* fails, streams the uploaded bytes; and when a DeleteUpdate is answered 200
\* the object of that update is gone, so that a download of it is not found.
C30_DownloadURLRoundTrip ==
    /\ ( /\ resp.op = "DownloadUpdate"
         /\ resp.status # 500
         /\ RecordsOfPath # {} )
       => /\ \A i \in RecordsOfPath :
               resp.body.key = UpdateKey(updates[i].version, updates[i].platform,
                                         updates[i].arch, updates[i].filename)
          /\ resp.status = 200
          /\ resp.body.data = UpdateData
    /\ ( resp.op = "DeleteUpdate" /\ resp.status = 200 )
       => ~Exists(objects, UpdateKey(resp.body.version, resp.body.platform,
                                     resp.body.arch, "app.bin"))

\* every File record of the catalog cat has its object in store
FilesStored(cat, store) ==
    \A i \in 1..Len(cat) :
        \A j \in 1..Len(cat[i].files) :
            Exists(store, UploadS3Key(cat[i].files[j].hash, cat[i].files[j].name))

\* C29: after every step each File record of every version has an object at
\* packages/{hash}/{name}; a step that removes an object removes a key under
\* updates/, never one under packages/; and a DeletePackage step leaves the
\* object store as it was.
C29_FileRecordsNeverDangle ==
    [][/\ FilesStored(versions', objects')
       /\ \A key \in DOMAIN objects \ DOMAIN objects' : key[1] = "updates"
       /\ resp'.op = "DeletePackage" => objects' = objects]_vars

\* a DeletePackage removed the last File record of a version and its object
\* is still stored, next to a version that holds a File record
C29_Witness ==
    /\ resp.op = "DeletePackage" /\ resp.status = 200
    /\ \E i \in 1..Len(versions) :
          /\ versions[i].package_id = resp.body.name
          /\ versions[i].version = resp.body.version
          /\ versions[i].files = <<>>
    /\ \E key \in DOMAIN objects :
          key[1] = "packages" /\ key[3] = resp.body.filename
    /\ \E i \in 1..Len(versions) : versions[i].files # <<>>
    /\ FilesStored(versions, objects)

\* ------------------------------------- the rate limiter, step by step
\* time.Minute and the configured ExpiryTime, in ticks
Minute == 60 * TicksPerSecond
ExpiryTime == 5 * Minute

\* the idle periods, each a minute longer than ExpiryTime, a run lasts
MaxIdlePeriods == 1
IdlePeriod == ExpiryTime + Minute

\* the holder of mu while cleanup sweeps
Cleanup == MaxProcs + 1

\* requests inside the middleware
InMiddleware == { q \in Procs : pc[q] \in {"gv_lock", "gv_store", "allow"} }

\* (mutant) a Lock that does not wait for the holder
LockAnyway(holder) == TRUE

\* mu.Lock() returns only when nobody holds mu
Lock(holder) == holder = Unlocked

\* RateLimit, line 106, and getVisitor, line 84: the client's address is
\* taken, then mu is locked
GetVisitorLock(p) ==
    /\ pc[p] = "idle"
    /\ Len(rlLog) + Cardinality(InMiddleware) < MaxRequests
    /\ Lock(mu)
    /\ \E ip \in ClientIPs :
         req' = [req EXCEPT ![p] = [ip |-> ip, at |-> now, exists |-> FALSE,
                                    orphan |-> <<>>]]
    /\ mu' = p
    /\ pc' = [pc EXCEPT ![p] = "gv_lock"]
    /\ Silent
    /\ UNCHANGED <<objects, visitors, now, rlLog, sweeper, orphans>>
    /\ UNCHANGED <<updVars, pkgVars, callVars, s3Vars>>

\* getVisitor, line 87: the map is read
GetVisitorLookup(p) ==
    /\ pc[p] = "gv_lock"
    /\ req' = [req EXCEPT ![p].exists = req[p].ip \in DOMAIN visitors]
    /\ pc' = [pc EXCEPT ![p] = "gv_store"]
    /\ Silent
    /\ UNCHANGED <<objects, rlVars, updVars, pkgVars, callVars, s3Vars>>

\* getVisitor, lines 88-98: a new visitor is stored or lastSeen is refreshed,
\* the limiter is returned and the deferred Unlock runs
GetVisitorStore(p) ==
    /\ pc[p] = "gv_store"
    /\ LET ip == req[p].ip
       IN visitors' =
            IF ~req[p].exists
            THEN Put(visitors, ip, [limiter |-> NewLimiter(now), lastSeen |-> now])
            ELSE IF ip \in DOMAIN visitors
            THEN [visitors EXCEPT ![ip].lastSeen = now]
            ELSE visitors
    /\ mu' = Unlocked
    /\ pc' = [pc EXCEPT ![p] = "allow"]
    /\ Silent
    /\ UNCHANGED <<objects, req, now, rlLog, sweeper, orphans>>
    /\ UNCHANGED <<updVars, pkgVars, callVars, s3Vars>>

\* the body of the 429 answer, lines 109-112
TooManyRequests == [error |-> "Too many requests", retry_after |-> "1s"]

\* (mutant) the rejected request is answered 429 and the chain goes on
AllowWithoutAbort(p, next) ==
    /\ pc[p] = "allow"
    /\ rlLog' = Append(rlLog, [ip |-> req[p].ip, at |-> req[p].at, done |-> now,
                               fresh |-> ~req[p].exists, status |-> 429])
    /\ resp' = [proc |-> p, op |-> "RateLimit", status |-> 429, body |-> TooManyRequests]
    /\ pc' = [pc EXCEPT ![p] = next]
    /\ UNCHANGED <<objects, req, visitors, now, mu, sweeper, orphans>>
    /\ UNCHANGED <<updVars, pkgVars, callVars, s3Vars>>

\* RateLimit, lines 108-116: limiter.Allow() on the limiter getVisitor
\* returned, which is the one in the map unless cleanup deleted the visitor
\* since; a rejected request is answered 429 and the chain is aborted, an
\* admitted one goes on to the position next of the chain
AllowOrAbort(p, next) ==
    /\ pc[p] = "allow"
    /\ LET r    == req[p]
           held == r.orphan # <<>>
           lim  == IF held THEN orphans[r.orphan] ELSE visitors[r.ip].limiter
           a    == Allow(lim, now)
           last == \A q \in Procs \ {p} : pc[q] = "allow" => req[q].orphan # r.orphan
       IN /\ visitors' = IF held THEN visitors
                         ELSE [visitors EXCEPT ![r.ip].limiter = a.limiter]
          /\ orphans' = IF ~held THEN orphans
                        ELSE IF last THEN Remove(orphans, r.orphan)
                        ELSE [orphans EXCEPT ![r.orphan] = a.limiter]
          /\ rlLog' = Append(rlLog, [ip |-> r.ip, at |-> r.at, done |-> now,
                                     fresh |-> ~r.exists,
                                     status |-> IF a.ok THEN 0 ELSE 429])
          /\ IF ~a.ok
             THEN Respond(p, "RateLimit", 429, TooManyRequests)
             ELSE /\ pc' = [pc EXCEPT ![p] = next]
                  /\ req' = [req EXCEPT ![p] = IdleReq]
                  /\ Silent
    /\ UNCHANGED <<objects, now, mu, sweeper>>
    /\ UNCHANGED <<updVars, pkgVars, callVars, s3Vars>>

\* cleanup, lines 72-73: the sleep of a minute is over and mu is locked
CleanupLock ==
    /\ sweeper.pc = "sleep"
    /\ now >= sweeper.since + Minute
    /\ Lock(mu)
    /\ mu' = Cleanup
    /\ sweeper' = [sweeper EXCEPT !.pc = "sweep"]
    /\ Silent
    /\ UNCHANGED <<pc, req, objects, visitors, now, rlLog, orphans>>
    /\ UNCHANGED <<updVars, pkgVars, callVars, s3Vars>>

\* (mutant) a visitor idle for exactly ExpiryTime is deleted too
ExpiredAtExpiry(vs, t) == { ip \in DOMAIN vs : t - vs[ip].lastSeen >= ExpiryTime }

\* the visitors cleanup deletes, line 75
Expired(vs, t) == { ip \in DOMAIN vs : t - vs[ip].lastSeen > ExpiryTime }

\* cleanup, lines 74-79: the expired visitors are deleted, mu is unlocked
\* and the next sleep begins; a limiter that a request obtained and has not
\* yet used lives on outside the map
CleanupSweep ==
    /\ sweeper.pc = "sweep"
    /\ LET gone   == Expired(visitors, now)
           Holds(q) == /\ pc[q] = "allow"
                       /\ req[q].orphan = <<>>
                       /\ req[q].ip \in gone
           kept   == { <<req[q].ip, now>> : q \in { x \in Procs : Holds(x) } }
       IN /\ visitors' = [ip \in DOMAIN visitors \ gone |-> visitors[ip]]
          /\ orphans' = [k \in DOMAIN orphans \cup kept |->
                            IF k \in DOMAIN orphans THEN orphans[k]
                            ELSE visitors[k[1]].limiter]
          /\ req' = [q \in Procs |->
                        IF Holds(q) THEN [req[q] EXCEPT !.orphan = <<req[q].ip, now>>]
                        ELSE req[q]]
    /\ mu' = Unlocked
    /\ sweeper' = [pc |-> "sleep", since |-> now]
    /\ Silent
    /\ UNCHANGED <<pc, objects, now, rlLog>>
    /\ UNCHANGED <<updVars, pkgVars, callVars, s3Vars>>

\* an idle period passes; rlLog keeps the requests decided at the present
\* instant
IdlePeriodPasses ==
    /\ now + IdlePeriod <= MaxIdlePeriods * IdlePeriod
    /\ now' = now + IdlePeriod
    /\ rlLog' = <<>>
    /\ UNCHANGED <<visitors, mu, sweeper, orphans>>
    /\ UNCHANGED <<reqVars, updVars, pkgVars, callVars, s3Vars>>

NextMutex ==
    \/ \E p \in Procs : \/ GetVisitorLock(p)
                        \/ GetVisitorLookup(p)
                        \/ GetVisitorStore(p)
                        \/ AllowOrAbort(p, "idle")
    \/ CleanupLock
    \/ CleanupSweep
    \/ IdlePeriodPasses

SpecMutex == Init /\ [][NextMutex]_vars

\* the requests of ip decided so far whose whole run through the middleware
\* fell in the present instant
DecidedNow(ip) ==
    { i \in 1..Len(rlLog) : /\ rlLog[i].ip = ip
                            /\ rlLog[i].at = now
                            /\ rlLog[i].done = now }

\* the requests of ip that arrived at the present instant and found no
\* visitor, decided or still on their way
FirstNow(ip) ==
    Cardinality({ i \in DecidedNow(ip) : rlLog[i].fresh })
    + Cardinality({ q \in Procs : /\ pc[q] \in {"gv_store", "allow"}
                                  /\ req[q].ip = ip
                                  /\ req[q].at = now
                                  /\ ~req[q].exists })

\* C24: a request holds mu from the Lock of getVisitor to its deferred
\* Unlock, the steps that read and write the visitors map and lastSeen, and
\* cleanup holds mu while it sweeps, never two of them together; the requests
\* of one identity that arrive at one instant create at most one bucket; and
\* of the requests of one identity that run at the instant its bucket is
\* created, the first BurstSize decided are admitted and every later one is
\* rejected.
C24_LimiterStateUnderLock ==
    /\ \A p \in Procs : pc[p] \in {"gv_lock", "gv_store"} => mu = p
    /\ sweeper.pc = "sweep" => mu = Cleanup
    /\ mu = Unlocked =>
          /\ \A p \in Procs : pc[p] \notin {"gv_lock", "gv_store"}
          /\ sweeper.pc = "sleep"
    /\ \A ip \in ClientIPs :
          /\ FirstNow(ip) <= 1
          /\ FirstNow(ip) = 1 =>
                \A i \in DecidedNow(ip) :
                    (rlLog[i].status # 429) <=>
                        Cardinality({ j \in DecidedNow(ip) : j < i }) < BurstSize

\* one identity sent more requests at one instant than the burst, through
\* two workers at a time: five were admitted and the sixth rejected while
\* another request of it holds the limiter
C24_Witness ==
    /\ Cardinality(DecidedNow("ip1")) = BurstSize + 1
    /\ Cardinality({ i \in DecidedNow("ip1") : rlLog[i].status # 429 }) = BurstSize
    /\ FirstNow("ip1") = 1
    /\ \E q \in Procs : pc[q] = "allow" /\ req[q].ip = "ip1"

\* ------------------------------------ the rate-limited download routes
\* one update is stored; the package catalog is as the server starts with
InitGate ==
    /\ updates = <<StoredUpdate(<<"1", ".", "0">>, "x86_64", 1)>>
    /\ latest_version = aggregateAll(updates, 1)
    /\ clock = 1
    /\ aggFailed = FALSE
    /\ objects = [k \in { UpdateKey(updates[1].version, updates[1].platform,
                                    updates[1].arch, updates[1].filename) }
                    |-> UpdateData]
    /\ pc = [p \in Procs |-> "idle"]
    /\ req = [p \in Procs |-> IdleReq]
    /\ resp = NoResp
    /\ InitPkg /\ InitCall /\ InitRL /\ InitS3

\* the routes of lines 64 and 72: downloadRateLimit, then the handler; the
\* requests are those of one client
NextGate ==
    \E p \in Procs :
        \/ GetVisitorLock(p) /\ req'[p].ip = "ip1"
        \/ GetVisitorLookup(p)
        \/ GetVisitorStore(p)
        \/ AllowOrAbort(p, "next")
        \/ DownloadPackageHandler(p, "next")
        \/ DownloadUpdateHandler(p, "next")

SpecGate == InitGate /\ [][NextGate]_vars

\* the limiter decided the request of worker p in this step
Decided(p) == pc[p] = "allow" /\ pc'[p] # "allow"

\* C23: the step in which the limiter rejects a download request answers 429
\* with the retry hint and ends the request with the catalog and the object
\* store untouched; a download handler, the only place of the catalog
\* lookups and object-store calls, is entered only by a request the limiter
\* admitted in that step, and answers only from there.
C23_RejectedDownloadDoesNoWork ==
    [][\A p \in Procs :
         /\ ( Decided(p) /\ rlLog'[Len(rlLog')].status = 429 )
            => /\ resp' = [proc |-> p, op |-> "RateLimit", status |-> 429,
                           body |-> TooManyRequests]
               /\ pc'[p] = "idle"
               /\ UNCHANGED <<objects, updVars, pkgVars>>
         /\ ( pc'[p] = "next" /\ pc[p] # "next" )
            => Decided(p) /\ rlLog'[Len(rlLog')].status = 0
         /\ ( resp'.op \in {"DownloadPackage", "DownloadUpdate"} /\ resp'.proc = p )
            => pc[p] = "next"]_vars

\* a sixth request of an identity was rejected while the stored update is in
\* place and an admitted request is about to enter its handler
C23_Witness ==
    /\ resp.op = "RateLimit" /\ resp.status = 429
    /\ resp.body.retry_after = "1s"
    /\ Len(rlLog) > BurstSize
    /\ objects # <<>>
    /\ \E q \in Procs : pc[q] = "next"

\* --------------------------------------------------------- idle eviction
\* the minutes a run lasts, and the requests made in it
MaxMinutes == 7
MaxIdleRequests == 3

MinutePasses ==
    /\ now + Minute <= MaxMinutes * Minute
    /\ now' = now + Minute
    /\ UNCHANGED <<visitors, rlLog, mu, sweeper, orphans>>
    /\ UNCHANGED <<reqVars, updVars, pkgVars, callVars, s3Vars>>

\* requests pass the middleware one at a time, between the sweeps
NextEvict ==
    \/ \E ip \in ClientIPs :
          /\ mu = Unlocked
          /\ Len(rlLog) < MaxIdleRequests
          /\ RateLimit(ip)
    \/ CleanupLock
    \/ CleanupSweep
    \/ MinutePasses

\* time passes, and the cleanup goroutine, which loops for ever, gets mu
\* and finishes its sweep
SpecEvict ==
    /\ Init /\ [][NextEvict]_vars
    /\ WF_vars(MinutePasses) /\ WF_vars(CleanupLock) /\ WF_vars(CleanupSweep)

\* the instants of a run
Instants == { m * Minute : m \in 0..MaxMinutes }

\* C25: a visitor last seen at an instant t that lies more than ExpiryTime
\* before the end of the run is eventually deleted from the map unless it
\* is seen again; a visitor is deleted only when more than ExpiryTime has
\* passed since it was last seen; and the request that puts an identity
\* (back) into the map is admitted and leaves a bucket that was full but for
\* its own token.
C25_IdleVisitorsEvicted ==
    /\ \A ip \in ClientIPs : \A t \in Instants :
          ( /\ ip \in DOMAIN visitors
            /\ visitors[ip].lastSeen = t
            /\ t + ExpiryTime < MaxMinutes * Minute )
          ~> ( \/ ip \notin DOMAIN visitors
               \/ visitors[ip].lastSeen # t )
    /\ [][\A ip \in DOMAIN visitors \ DOMAIN visitors' :
             now - visitors[ip].lastSeen > ExpiryTime]_vars
    /\ [][\A ip \in DOMAIN visitors' \ DOMAIN visitors :
             /\ visitors'[ip] = [limiter |-> [tokens |-> BucketFull - TokenCost,
                                               last |-> now],
                                 lastSeen |-> now]
             /\ rlLog'[Len(rlLog')] = [ip |-> ip, at |-> now, fresh |-> TRUE,
                                       status |-> 0]]_vars

\* an identity seen at the start was swept out once its idle time exceeded
\* ExpiryTime, came back and got a fresh bucket, while an identity seen two
\* minutes after the start is still in the map
C25_Witness ==
    /\ Len(rlLog) = 3
    /\ rlLog[1].ip = "ip1" /\ rlLog[1].at = 0
    /\ rlLog[2].ip = "ip2" /\ rlLog[2].at = 2 * Minute
    /\ rlLog[3].ip = "ip1" /\ rlLog[3].fresh /\ rlLog[3].at = ExpiryTime + Minute
    /\ DOMAIN visitors = {"ip1", "ip2"}
    /\ visitors["ip1"].limiter.tokens = BucketFull - TokenCost

=============================================================================
